---- MODULE Spec2Model ----
(***************************************************************************)
(* Model of the moov-go client: the call builder and response combinators  *)
(* (call.go), the transfer endpoints (transfer.go) and the bank-account    *)
(* endpoints (bank_account.go).                                            *)
(*                                                                         *)
(* Strings are sequences of tokens: a token is either a run of unreserved  *)
(* characters ("accountIDs", "t1", "2023") or a single special character   *)
(* (",", ":", "&", "=", "?", "/") or a "%s" verb of a format string.       *)
(* The client keeps no state between calls; the state of the model is the  *)
(* last invocation, what it returned and what it did on the way.           *)
(***************************************************************************)
EXTENDS Integers, Sequences, FiniteSets, TLC

VARIABLES op, input, builder, result, result2, err, sent, inspected, unmarshals, applied,
          encoded, decoded

vars == <<op, input, builder, result, result2, err, sent, inspected, unmarshals, applied,
          encoded, decoded>>

----------------------------------------------------------------------------
(* Bounds *)

MaxArgs == 2
MaxAccountIDs == 2
MaxCount == 1
NumTransportErrs == 2

----------------------------------------------------------------------------
(* Errors.  Every error value is a record [kind, code, status].            *)

NilErr == [kind |-> "nil", code |-> 0, status |-> ""]

NamedErr(name) == [kind |-> name, code |-> 0, status |-> ""]

ErrXIdempotencyKey == NamedErr("ErrXIdempotencyKey")
ErrRateLimit == NamedErr("ErrRateLimit")
ErrRequestBody == NamedErr("ErrRequestBody")
ErrAmountIncorrect == NamedErr("ErrAmountIncorrect")
ErrDuplicateBankAccount == NamedErr("ErrDuplicateBankAccount")
ErrNoMicroDeposit == NamedErr("ErrNoMicroDeposit")

ErrDefault(statusCode) == [kind |-> "ErrDefault", code |-> statusCode, status |-> ""]

(* errors produced by encoding/json *)
ErrMarshal == NamedErr("json.UnsupportedTypeError")
ErrUnmarshal == NamedErr("json.UnmarshalError")

(* errors of the transport: DNS, connection, timeout, cancelled context *)
TransportErrs == {[kind |-> "transport", code |-> n, status |-> ""] : n \in 1..NumTransportErrs}

----------------------------------------------------------------------------
(* CallStatus *)

callStatusRetryAll(name, retryable) == [Name |-> name, Retryable |-> name # "completed"]

callStatus(name, retryable) == [Name |-> name, Retryable |-> retryable]

StatusCompleted == callStatus("completed", FALSE)
StatusStarted == callStatus("started", TRUE)
StatusBadRequest == callStatus("bad_request", FALSE)
StatusStateConflict == callStatus("state_conflict", FALSE)
StatusFailedValidation == callStatus("failed_validation", FALSE)
StatusNotFound == callStatus("not_found", FALSE)
StatusUnauthenticated == callStatus("unauthenticated", FALSE)
StatusUnauthorized == callStatus("unauthorized", FALSE)
StatusRateLimited == callStatus("rate_limited", TRUE)
StatusServerError == callStatus("server_error", TRUE)

CallStatuses ==
    { StatusCompleted, StatusStarted, StatusBadRequest, StatusStateConflict,
      StatusFailedValidation, StatusNotFound, StatusUnauthenticated,
      StatusUnauthorized, StatusRateLimited, StatusServerError }

----------------------------------------------------------------------------
(* Values returned by the endpoints: a pointer, slice or struct of a type, *)
(* nil, the zero value, decoded from a body, or left half-filled by a      *)
(* decode that failed.                                                     *)

NoValue == [state |-> "none", type |-> "", body |-> ""]
Nil(type) == [state |-> "nil", type |-> type, body |-> ""]
Zero(type) == [state |-> "zero", type |-> type, body |-> ""]
Decoded(type, body) == [state |-> "decoded", type |-> type, body |-> body]
Partial(type, body) == [state |-> "partial", type |-> type, body |-> body]

IsNilOrZero(v) == v.state \in {"nil", "zero"}

----------------------------------------------------------------------------
(* Strings as token sequences; fmt.Sprintf with %s verbs.                  *)

RECURSIVE Concat(_)
Concat(seqs) == IF seqs = <<>> THEN <<>> ELSE Head(seqs) \o Concat(Tail(seqs))

RECURSIVE Join(_, _)
Join(elems, sep) ==
    IF elems = <<>> THEN <<>>
    ELSE IF Len(elems) = 1 THEN Head(elems)
    ELSE Head(elems) \o sep \o Join(Tail(elems), sep)

RECURSIVE ExtraArgs(_)
ExtraArgs(args) ==
    IF args = <<>> THEN <<>>
    ELSE <<<<"string=">> \o Head(args)>> \o ExtraArgs(Tail(args))

RECURSIVE Sprintf(_, _)
Sprintf(format, args) ==
    IF format = <<>>
    THEN IF args = <<>> THEN <<>>
         ELSE <<"%!(EXTRA ">> \o Join(ExtraArgs(args), <<", ">>) \o <<")">>
    ELSE IF Head(format) = "%s"
         THEN IF args = <<>>
              THEN <<"%!s(MISSING)">> \o Sprintf(Tail(format), args)
              ELSE Head(args) \o Sprintf(Tail(format), Tail(args))
         ELSE <<Head(format)>> \o Sprintf(Tail(format), args)

----------------------------------------------------------------------------
(* Paths and methods *)

baseURL == <<"https://api.moov.io">>
pathTransfers == <<"transfers">>
pathTransferOptions == <<"transfer-options">>
pathBankAccounts == <<"/accounts/", "%s", "/bank-accounts">>
pathMicroDeposits == <<"/accounts/", "%s", "/bank-accounts/", "%s", "/micro-deposits">>

MethodGet == "GET"
MethodPost == "POST"
MethodPut == "PUT"
MethodPatch == "PATCH"
MethodDelete == "DELETE"

----------------------------------------------------------------------------
(* callBuilder and its options *)

EmptyMap == [k \in {} |-> ""]

MapSet(m, key, value) == [k \in (DOMAIN m) \cup {key} |-> IF k = key THEN value ELSE m[k]]

NoBody == [present |-> FALSE, json |-> <<>>]

NoCall == [built |-> FALSE, method |-> "", path |-> <<>>, params |-> EmptyMap,
           headers |-> EmptyMap, body |-> NoBody]

(* &callBuilder{params: make(...), headers: make(...)} *)
callBuilder == [built |-> TRUE, method |-> "", path |-> <<>>, params |-> EmptyMap,
                headers |-> EmptyMap, body |-> NoBody]

(* Values json.Marshal rejects: channels, functions, cyclic values. *)
Unmarshalable == {"chan"}

jsonMarshal(body) ==
    IF body \in Unmarshalable
    THEN [payload |-> NoBody, err |-> ErrMarshal]
    ELSE [payload |-> [present |-> TRUE, json |-> <<body>>], err |-> NilErr]

Endpoint(method, pathFmt, args) ==
    [opt |-> "Endpoint", method |-> method, pathFmt |-> pathFmt, args |-> args, value |-> ""]

JsonBody(body) ==
    [opt |-> "JsonBody", method |-> "", pathFmt |-> <<>>, args |-> <<>>, value |-> body]

AcceptJson ==
    [opt |-> "AcceptJson", method |-> "", pathFmt |-> <<>>, args |-> <<>>, value |-> ""]

WaitFor(state) ==
    [opt |-> "WaitFor", method |-> "", pathFmt |-> <<>>, args |-> <<>>, value |-> state]

(* callArgInstance.apply: runs the option's function on the builder *)
apply(arg, call) ==
    CASE arg.opt = "Endpoint" ->
           [call |-> [call EXCEPT !.method = arg.method,
                                  !.path = Sprintf(arg.pathFmt, arg.args)],
            err |-> NilErr]
      [] arg.opt = "JsonBody" ->
           LET m == jsonMarshal(arg.value) IN
           IF m.err # NilErr
           THEN [call |-> call, err |-> m.err]
           ELSE [call |-> [call EXCEPT
                             !.headers = MapSet(call.headers, "Context-Type", "application/json"),
                             !.body = m.payload],
                 err |-> NilErr]
      [] arg.opt = "AcceptJson" ->
           [call |-> [call EXCEPT !.headers = MapSet(call.headers, "Accept", "application/json")],
            err |-> NilErr]
      [] arg.opt = "WaitFor" ->
           [call |-> [call EXCEPT !.headers = MapSet(call.headers, "X-Wait-For", arg.value)],
            err |-> NilErr]

prependArgsAfter(opts, args) == opts \o args

prependArgs(opts, args) == args \o opts

(* The loop of newCall over the prepended options; log records the options *)
(* whose apply was run, in the order it was run.                           *)
RECURSIVE applyAllSkipFailed(_, _, _)
applyAllSkipFailed(call, args, log) ==
    IF args = <<>>
    THEN [call |-> call, err |-> NilErr, applied |-> log]
    ELSE LET r == apply(Head(args), call) IN
         applyAllSkipFailed(r.call, Tail(args), Append(log, Head(args)))

RECURSIVE applyAll(_, _, _)
applyAll(call, args, log) ==
    IF args = <<>>
    THEN [call |-> call, err |-> NilErr, applied |-> log]
    ELSE LET r == apply(Head(args), call) IN
         IF r.err # NilErr
         THEN [call |-> NoCall, err |-> r.err, applied |-> Append(log, Head(args))]
         ELSE applyAll(r.call, Tail(args), Append(log, Head(args)))

newCall(endpoint, args) ==
    applyAll(callBuilder, prependArgs(args, <<endpoint>>), <<>>)

----------------------------------------------------------------------------
(* CallResponse: the classified status, the body, and what decoding the    *)
(* body does: "ok", "fail" (nothing written to the target) or "partial"    *)
(* (the target half-filled before the error).                              *)

Decodings == {"ok", "fail", "partial"}

Status(resp) == resp.status

(* resp.Unmarshal(item): item is what the target holds afterwards *)
Unmarshal(resp, init, type) ==
    CASE resp.decodes = "ok" -> [item |-> Decoded(type, resp.body), err |-> NilErr]
      [] resp.decodes = "fail" -> [item |-> init, err |-> ErrUnmarshal]
      [] resp.decodes = "partial" -> [item |-> Partial(type, resp.body), err |-> ErrUnmarshal]

(* resp.Error(): the classified error of a response that did not complete *)
Error(resp) ==
    IF resp.status = StatusCompleted
    THEN NilErr
    ELSE [kind |-> "classified", code |-> 0, status |-> resp.status.Name]

(* The helpers return [value, err, unmarshals]: unmarshals counts the      *)
(* calls of resp.Unmarshal.                                                *)
UnmarshalObjectResponseKeepItem(resp, type) ==
    LET u == Unmarshal(resp, Zero(type), type) IN
    [value |-> u.item, err |-> u.err, unmarshals |-> 1]

UnmarshalObjectResponse(resp, type) ==
    LET u == Unmarshal(resp, Zero(type), type) IN
    IF u.err # NilErr
    THEN [value |-> Nil(type), err |-> u.err, unmarshals |-> 1]
    ELSE [value |-> u.item, err |-> NilErr, unmarshals |-> 1]

UnmarshalListResponseKeepItem(resp, type) ==
    LET u == Unmarshal(resp, Zero(type), type) IN
    [value |-> u.item, err |-> u.err, unmarshals |-> 1]

UnmarshalListResponse(resp, type) ==
    LET u == Unmarshal(resp, Zero(type), type) IN
    IF u.err # NilErr
    THEN [value |-> Nil(type), err |-> u.err, unmarshals |-> 1]
    ELSE [value |-> u.item, err |-> NilErr, unmarshals |-> 1]

CompletedNilOrError(resp) ==
    IF Status(resp) = StatusCompleted
    THEN [value |-> NoValue, err |-> NilErr, unmarshals |-> 0]
    ELSE [value |-> NoValue, err |-> Error(resp), unmarshals |-> 0]

CompletedObjectOrErrorOnStarted(resp, type) ==
    IF Status(resp) \in {StatusCompleted, StatusStarted}
    THEN UnmarshalObjectResponse(resp, type)
    ELSE [value |-> Nil(type), err |-> Error(resp), unmarshals |-> 0]

CompletedObjectOrError(resp, type) ==
    IF Status(resp) = StatusCompleted
    THEN UnmarshalObjectResponse(resp, type)
    ELSE [value |-> Nil(type), err |-> Error(resp), unmarshals |-> 0]

CompletedListOrError(resp, type) ==
    IF Status(resp) = StatusCompleted
    THEN UnmarshalListResponse(resp, type)
    ELSE [value |-> Nil(type), err |-> Error(resp), unmarshals |-> 0]

----------------------------------------------------------------------------
(* The transport.  reply is what the network does with the one request:    *)
(* an error, or a response.                                                *)

Request(method, url, headers, body) ==
    [method |-> method, url |-> url, headers |-> headers, body |-> body]

(* Client.CallHttp: builds the call, sends it, classifies the response *)
CallHttp(endpoint, args, reply) ==
    LET c == newCall(endpoint, args) IN
    IF c.err # NilErr
    THEN [resp |-> reply, err |-> c.err, sent |-> <<>>, applied |-> c.applied]
    ELSE [resp |-> reply, err |-> reply.err,
          sent |-> <<Request(c.call.method, c.call.path, c.call.headers, c.call.body)>>,
          applied |-> c.applied]

(* Client.GetHTTPResponse: sends the request, returns body, code, error *)
GetHTTPResponse(method, urlStr, payload, header, reply) ==
    [reply |-> reply, statusCode |-> reply.statusCode, err |-> reply.err,
     sent |-> <<Request(method, urlStr, header,
                        IF payload = <<>> THEN NoBody
                        ELSE [present |-> TRUE, json |-> payload])>>]

(* json.Unmarshal(body, &target) *)
jsonUnmarshal(reply, init, type) ==
    CASE reply.decodes = "ok" -> [item |-> Decoded(type, reply.body), err |-> NilErr]
      [] reply.decodes = "fail" -> [item |-> init, err |-> ErrUnmarshal]
      [] reply.decodes = "partial" -> [item |-> Partial(type, reply.body), err |-> ErrUnmarshal]

----------------------------------------------------------------------------
(* url.Values: Add appends a <<key, value>> pair; Encode sorts by key,     *)
(* escapes key and value and joins the pairs with "&".                     *)

EscapeToken(t) ==
    CASE t = "," -> "%2C"
      [] t = ":" -> "%3A"
      [] t = "/" -> "%2F"
      [] t = "&" -> "%26"
      [] t = "=" -> "%3D"
      [] t = "?" -> "%3F"
      [] t = "+" -> "%2B"
      [] t = " " -> "+"
      [] OTHER -> t

QueryEscape(str) == [i \in 1..Len(str) |-> EscapeToken(str[i])]

(* the keys ListTransfers and GetTransfer add, in byte order *)
SortedKeys ==
    <<"accountID", "accountIDs", "count", "disputed", "endDateTime", "groupID",
      "refunded", "skip", "startDateTime", "status">>

Add(values, key, value) == Append(values, <<key, value>>)

RECURSIVE PairsOfKey(_, _)
PairsOfKey(values, key) ==
    IF values = <<>> THEN <<>>
    ELSE IF Head(values)[1] = key
         THEN <<<<key, "=">> \o QueryEscape(Head(values)[2])>> \o PairsOfKey(Tail(values), key)
         ELSE PairsOfKey(Tail(values), key)

RECURSIVE EncodedPairs(_, _)
EncodedPairs(values, keys) ==
    IF keys = <<>> THEN <<>>
    ELSE PairsOfKey(values, Head(keys)) \o EncodedPairs(values, Tail(keys))

Encode(values) == Join(EncodedPairs(values, SortedKeys), <<"&">>)

(* time.Time: 0 is the zero instant, t > 0 is the first second of year t   *)
Times == {0, 2023}

IsZero(t) == t = 0

YearToken(t) == IF t = 0 THEN "0001" ELSE ToString(t)

(* t.Format(time.RFC3339) *)
FormatRFC3339(t) ==
    <<YearToken(t), "-", "01", "-", "01", "T", "00", ":", "00", ":", "00", "Z">>

(* fmt.Sprint(n) *)
Sprint(n) == <<ToString(n)>>

----------------------------------------------------------------------------
(* encoding/json on the record types.  A JSON document is a tree: null, a  *)
(* string, a number, or an object (a function from keys to documents).     *)
(* A Go struct is a function from field names to values; a string is a     *)
(* token sequence, a time as above, a map[string]string is nil or holds    *)
(* entries.                                                                *)

JNull == <<"null">>
JStr(str) == <<"str", str>>
JNum(n) == <<"num", n>>
JObj(members) == <<"obj", members>>

ErrUnknownField == NamedErr("json: unknown field")

TString == [kind |-> "string", fields |-> <<>>]
TInt == [kind |-> "int", fields |-> <<>>]
TTime == [kind |-> "time", fields |-> <<>>]
TMap == [kind |-> "map", fields |-> <<>>]
TStruct(fields) == [kind |-> "struct", fields |-> fields]

(* a struct field with its `json:"key,omitempty"` tag *)
Field(name, key, omitempty, type) ==
    [name |-> name, key |-> key, omitempty |-> omitempty, type |-> type]

NilMap == [isNil |-> TRUE, entries |-> EmptyMap]
MapOf(entries) == [isNil |-> FALSE, entries |-> entries]

AmountType ==
    TStruct(<<Field("Currency", "currency", TRUE, TString),
              Field("Value", "value", TRUE, TInt)>>)

AsynchronousTransferType ==
    TStruct(<<Field("TransferID", "transferID", TRUE, TString),
              Field("CreatedOn", "createdOn", TRUE, TTime)>>)

BankAccountType ==
    TStruct(<<Field("BankAccountID", "bankAccountID", TRUE, TString),
              Field("Fingerprint", "fingerprint", TRUE, TString),
              Field("Status", "status", TRUE, TString),
              Field("HolderName", "holderName", TRUE, TString),
              Field("HolderType", "holderType", TRUE, TString),
              Field("BankName", "bankName", TRUE, TString),
              Field("BankAccountType", "bankAccountType", TRUE, TString),
              Field("AccountNumber", "accountNumber", TRUE, TString),
              Field("RoutingNumber", "routingNumber", TRUE, TString),
              Field("LastFourAccountNumber", "lastFourAccountNumber", TRUE, TString)>>)

MetaDataPayloadType == TStruct(<<Field("Metadata", "metadata", TRUE, TMap)>>)

RefundStatusType ==
    TStruct(<<Field("Status", "status", TRUE, TString),
              Field("CreatedOn", "createdOn", TRUE, TTime)>>)

TransferOptionsSourcePayloadType ==
    TStruct(<<Field("PaymentMethodID", "paymentMethodID", TRUE, TString),
              Field("AccountID", "accountID", TRUE, TString)>>)

TransferOptionsPayloadType ==
    TStruct(<<Field("Source", "source", TRUE, TransferOptionsSourcePayloadType),
              Field("Destination", "destination", TRUE, TransferOptionsSourcePayloadType),
              Field("Amount", "amount", TRUE, AmountType)>>)

(* the Dispute record, as the body of TestDisputesMarshal shows it *)
DisputeTransferType == TStruct(<<Field("TransferID", "transferID", TRUE, TString)>>)

DisputeType ==
    TStruct(<<Field("Amount", "amount", TRUE, AmountType),
              Field("CreatedOn", "createdOn", TRUE, TTime),
              Field("DisputeID", "disputeID", TRUE, TString),
              Field("NetworkReasonCode", "networkReasonCode", TRUE, TString),
              Field("NetworkReasonDescription", "networkReasonDescription", TRUE, TString),
              Field("RespondBy", "respondBy", TRUE, TTime),
              Field("Status", "status", TRUE, TString),
              Field("Transfer", "transfer", TRUE, DisputeTransferType)>>)

FieldNames(type) == {type.fields[i].name : i \in 1..Len(type.fields)}
FieldKeys(type) == {type.fields[i].key : i \in 1..Len(type.fields)}
FieldNamed(type, name) ==
    type.fields[CHOOSE i \in 1..Len(type.fields) : type.fields[i].name = name]
FieldKeyed(type, key) ==
    type.fields[CHOOSE i \in 1..Len(type.fields) : type.fields[i].key = key]

(* the zero value of a type: what new(A) points to *)
RECURSIVE ZeroOf(_)
ZeroOf(type) ==
    CASE type.kind = "string" -> <<>>
      [] type.kind = "int" -> 0
      [] type.kind = "time" -> 0
      [] type.kind = "map" -> NilMap
      [] type.kind = "struct" ->
           [n \in FieldNames(type) |-> ZeroOf(FieldNamed(type, n).type)]

(* omitempty: false, 0, nil, and an empty array, slice, map or string are  *)
(* empty; a struct, and so a time.Time, never is.                          *)
isEmptyValue(type, v) ==
    CASE type.kind = "string" -> v = <<>>
      [] type.kind = "int" -> v = 0
      [] type.kind = "map" -> DOMAIN v.entries = {}
      [] OTHER -> FALSE

(* json.Marshal *)
RECURSIVE marshal(_, _)
marshal(type, v) ==
    CASE type.kind = "string" -> JStr(v)
      [] type.kind = "int" -> JNum(v)
      [] type.kind = "time" -> JStr(FormatRFC3339(v))
      [] type.kind = "map" ->
           IF v.isNil THEN JNull
           ELSE JObj([k \in DOMAIN v.entries |-> JStr(v.entries[k])])
      [] type.kind = "struct" ->
           LET kept == {n \in FieldNames(type) :
                          ~(FieldNamed(type, n).omitempty
                            /\ isEmptyValue(FieldNamed(type, n).type, v[n]))}
           IN  JObj([key \in {FieldNamed(type, n).key : n \in kept} |->
                        marshal(FieldKeyed(type, key).type, v[FieldKeyed(type, key).name])])

(* time.Time.UnmarshalJSON: the inverse of the RFC3339 layout *)
ParseRFC3339(str) ==
    IF \E t \in Times : FormatRFC3339(t) = str
    THEN [time |-> CHOOSE t \in Times : FormatRFC3339(t) = str, err |-> NilErr]
    ELSE [time |-> 0, err |-> ErrUnmarshal]

(* json.Unmarshal / Decoder.Decode into cur; strict is DisallowUnknownFields. *)
(* null leaves the target as it is; a document of the wrong kind is an     *)
(* error and leaves the target as it is; a key without a field is skipped, *)
(* or an error when strict.                                                *)
RECURSIVE unmarshalNullFails(_, _, _, _)
unmarshalNullFails(type, doc, cur, strict) ==
    IF doc = JNull THEN [value |-> cur, err |-> ErrUnmarshal]
    ELSE CASE type.kind = "string" ->
                IF doc[1] = "str" THEN [value |-> doc[2], err |-> NilErr]
                ELSE [value |-> cur, err |-> ErrUnmarshal]
           [] type.kind = "int" ->
                IF doc[1] = "num" THEN [value |-> doc[2], err |-> NilErr]
                ELSE [value |-> cur, err |-> ErrUnmarshal]
           [] type.kind = "time" ->
                IF doc[1] = "str"
                THEN LET parsed == ParseRFC3339(doc[2]) IN
                     [value |-> IF parsed.err = NilErr THEN parsed.time ELSE cur,
                      err |-> parsed.err]
                ELSE [value |-> cur, err |-> ErrUnmarshal]
           [] type.kind = "map" ->
                IF doc[1] = "obj" /\ \A k \in DOMAIN doc[2] : doc[2][k][1] = "str"
                THEN [value |-> MapOf([k \in DOMAIN cur.entries \cup DOMAIN doc[2] |->
                                         IF k \in DOMAIN doc[2] THEN doc[2][k][2]
                                         ELSE cur.entries[k]]),
                      err |-> NilErr]
                ELSE [value |-> cur, err |-> ErrUnmarshal]
           [] type.kind = "struct" ->
                IF doc[1] # "obj" THEN [value |-> cur, err |-> ErrUnmarshal]
                ELSE LET members == doc[2]
                         sub(n) ==
                            LET f == FieldNamed(type, n) IN
                            IF f.key \in DOMAIN members
                            THEN unmarshalNullFails(f.type, members[f.key], cur[n], strict)
                            ELSE [value |-> cur[n], err |-> NilErr]
                     IN  [value |-> [n \in FieldNames(type) |-> sub(n).value],
                          err |-> IF strict /\ DOMAIN members \ FieldKeys(type) # {}
                                  THEN ErrUnknownField
                                  ELSE IF \E n \in FieldNames(type) : sub(n).err # NilErr
                                       THEN ErrUnmarshal
                                       ELSE NilErr]

RECURSIVE unmarshal(_, _, _, _)
unmarshal(type, doc, cur, strict) ==
    IF doc = JNull THEN [value |-> cur, err |-> NilErr]
    ELSE CASE type.kind = "string" ->
                IF doc[1] = "str" THEN [value |-> doc[2], err |-> NilErr]
                ELSE [value |-> cur, err |-> ErrUnmarshal]
           [] type.kind = "int" ->
                IF doc[1] = "num" THEN [value |-> doc[2], err |-> NilErr]
                ELSE [value |-> cur, err |-> ErrUnmarshal]
           [] type.kind = "time" ->
                IF doc[1] = "str"
                THEN LET parsed == ParseRFC3339(doc[2]) IN
                     [value |-> IF parsed.err = NilErr THEN parsed.time ELSE cur,
                      err |-> parsed.err]
                ELSE [value |-> cur, err |-> ErrUnmarshal]
           [] type.kind = "map" ->
                IF doc[1] = "obj" /\ \A k \in DOMAIN doc[2] : doc[2][k][1] = "str"
                THEN [value |-> MapOf([k \in DOMAIN cur.entries \cup DOMAIN doc[2] |->
                                         IF k \in DOMAIN doc[2] THEN doc[2][k][2]
                                         ELSE cur.entries[k]]),
                      err |-> NilErr]
                ELSE [value |-> cur, err |-> ErrUnmarshal]
           [] type.kind = "struct" ->
                IF doc[1] # "obj" THEN [value |-> cur, err |-> ErrUnmarshal]
                ELSE LET members == doc[2]
                         sub(n) ==
                            LET f == FieldNamed(type, n) IN
                            IF f.key \in DOMAIN members
                            THEN unmarshal(f.type, members[f.key], cur[n], strict)
                            ELSE [value |-> cur[n], err |-> NilErr]
                     IN  [value |-> [n \in FieldNames(type) |-> sub(n).value],
                          err |-> IF strict /\ DOMAIN members \ FieldKeys(type) # {}
                                  THEN ErrUnknownField
                                  ELSE IF \E n \in FieldNames(type) : sub(n).err # NilErr
                                       THEN ErrUnmarshal
                                       ELSE NilErr]

----------------------------------------------------------------------------
(* Endpoints.  Each returns what the Go function returns (result, result2, *)
(* err) and what it did: the requests it sent, whether it read the status  *)
(* of a response, how often it decoded a body, the options newCall ran.    *)

Out(res, res2, e, requests, readStatus, decodes, options) ==
    [result |-> res, result2 |-> res2, err |-> e, sent |-> requests,
     inspected |-> readStatus, unmarshals |-> decodes, applied |-> options]

(* var err error; _ = json.Unmarshal(body, &err): the target is a nil      *)
(* interface of a type with methods, which encoding/json never fills.      *)
jsonUnmarshalError(reply) == NilErr

(* args := []callArg{AcceptJson(), JsonBody(transfer)}, plus WaitFor if isSync *)
CreateTransferArgsNoWait(transfer, isSync) == <<AcceptJson, JsonBody(transfer)>>

CreateTransferArgs(transfer, isSync) ==
    <<AcceptJson, JsonBody(transfer)>>
        \o (IF isSync THEN <<WaitFor("rail-response")>> ELSE <<>>)

(* header := map[string]string{"X-Idempotency-Key": uuidV4}, plus the wait *)
RefundHeaderAlwaysWaits(isSync, uuidV4) ==
    MapSet(MapSet(EmptyMap, "X-Idempotency-Key", uuidV4), "X-Wait-For", "rail-response")

RefundHeader(isSync, uuidV4) ==
    LET h0 == MapSet(EmptyMap, "X-Idempotency-Key", uuidV4) IN
    IF isSync THEN MapSet(h0, "X-Wait-For", "rail-response") ELSE h0

ReverseHeader(uuidV4) == MapSet(EmptyMap, "X-Idempotency-Key", uuidV4)

CreateTransferRetrying(transfer, isSync, reply) ==
    LET args == CreateTransferArgs(transfer, isSync)
        h == CallHttp(Endpoint(MethodPost, pathTransfers, <<>>), args, reply)
        nilSync == Nil("SynchronousTransfer")
        nilAsync == Nil("AsynchronousTransfer")
    IN  IF h.err # NilErr
        THEN Out(nilSync, nilAsync, h.err, h.sent, FALSE, 0, h.applied)
        ELSE CASE Status(h.resp) = StatusCompleted ->
                    LET u == UnmarshalObjectResponse(h.resp, "SynchronousTransfer") IN
                    Out(u.value, nilAsync, u.err, h.sent, TRUE, u.unmarshals, h.applied)
               [] Status(h.resp) = StatusStarted ->
                    LET u == UnmarshalObjectResponse(h.resp, "AsynchronousTransfer") IN
                    Out(nilSync, u.value, u.err, h.sent, TRUE, u.unmarshals, h.applied)
               [] Status(h.resp) = StatusStateConflict ->
                    Out(nilSync, nilAsync, ErrXIdempotencyKey, h.sent, TRUE, 0, h.applied)
               [] OTHER ->
                    Out(nilSync, nilAsync, Error(h.resp),
                        IF Status(h.resp).Retryable THEN h.sent \o h.sent ELSE h.sent,
                        TRUE, 0, h.applied)

CreateTransfer(transfer, isSync, reply) ==
    LET args == CreateTransferArgs(transfer, isSync)
        h == CallHttp(Endpoint(MethodPost, pathTransfers, <<>>), args, reply)
        nilSync == Nil("SynchronousTransfer")
        nilAsync == Nil("AsynchronousTransfer")
    IN  IF h.err # NilErr
        THEN Out(nilSync, nilAsync, h.err, h.sent, FALSE, 0, h.applied)
        ELSE CASE Status(h.resp) = StatusCompleted ->
                    LET u == UnmarshalObjectResponse(h.resp, "SynchronousTransfer") IN
                    Out(u.value, nilAsync, u.err, h.sent, TRUE, u.unmarshals, h.applied)
               [] Status(h.resp) = StatusStarted ->
                    LET u == UnmarshalObjectResponse(h.resp, "AsynchronousTransfer") IN
                    Out(nilSync, u.value, u.err, h.sent, TRUE, u.unmarshals, h.applied)
               [] Status(h.resp) = StatusStateConflict ->
                    Out(nilSync, nilAsync, ErrXIdempotencyKey, h.sent, TRUE, 0, h.applied)
               [] OTHER ->
                    Out(nilSync, nilAsync, Error(h.resp), h.sent, TRUE, 0, h.applied)

ListTransfersValuesAnyCount(payload) ==
    LET startDateTimeStr == FormatRFC3339(payload.StartDateTime)
        endDateTimeStr == FormatRFC3339(payload.EndDateTime)
        v0 == <<>>
        v1 == IF Len(payload.AccountIDs) > 0
              THEN Add(v0, "accountIDs", Join(payload.AccountIDs, <<",">>)) ELSE v0
        v2 == IF payload.Status # <<>> THEN Add(v1, "status", payload.Status) ELSE v1
        v3 == IF ~IsZero(payload.StartDateTime)
              THEN Add(v2, "startDateTime", startDateTimeStr) ELSE v2
        v4 == IF ~IsZero(payload.EndDateTime)
              THEN Add(v3, "endDateTime", endDateTimeStr) ELSE v3
        v5 == IF payload.GroupID # <<>> THEN Add(v4, "groupID", payload.GroupID) ELSE v4
        v6 == IF payload.Count >= 0 THEN Add(v5, "count", Sprint(payload.Count)) ELSE v5
        v7 == IF payload.Skip > 0 THEN Add(v6, "skip", Sprint(payload.Skip)) ELSE v6
        v8 == IF payload.Refunded THEN Add(v7, "refunded", <<"true">>) ELSE v7
        v9 == IF payload.Disputed THEN Add(v8, "disputed", <<"true">>) ELSE v8
    IN  v9

(* the url.Values ListTransfers builds from the payload *)
ListTransfersValues(payload) ==
    LET startDateTimeStr == FormatRFC3339(payload.StartDateTime)
        endDateTimeStr == FormatRFC3339(payload.EndDateTime)
        v0 == <<>>
        v1 == IF Len(payload.AccountIDs) > 0
              THEN Add(v0, "accountIDs", Join(payload.AccountIDs, <<",">>)) ELSE v0
        v2 == IF payload.Status # <<>> THEN Add(v1, "status", payload.Status) ELSE v1
        v3 == IF ~IsZero(payload.StartDateTime)
              THEN Add(v2, "startDateTime", startDateTimeStr) ELSE v2
        v4 == IF ~IsZero(payload.EndDateTime)
              THEN Add(v3, "endDateTime", endDateTimeStr) ELSE v3
        v5 == IF payload.GroupID # <<>> THEN Add(v4, "groupID", payload.GroupID) ELSE v4
        v6 == IF payload.Count > 0 THEN Add(v5, "count", Sprint(payload.Count)) ELSE v5
        v7 == IF payload.Skip > 0 THEN Add(v6, "skip", Sprint(payload.Skip)) ELSE v6
        v8 == IF payload.Refunded THEN Add(v7, "refunded", <<"true">>) ELSE v7
        v9 == IF payload.Disputed THEN Add(v8, "disputed", <<"true">>) ELSE v8
    IN  v9

ListTransfers(payload, reply) ==
    LET values == ListTransfersValues(payload)
        urlStr == Sprintf(<<"%s", "/", "%s", "?", "%s">>,
                          <<baseURL, pathTransfers, Encode(values)>>)
        h == GetHTTPResponse(MethodGet, urlStr, <<>>, EmptyMap, reply)
        respTransfers == Nil("[]SynchronousTransfer")
    IN  IF h.err # NilErr
        THEN Out(respTransfers, NoValue, h.err, h.sent, FALSE, 0, <<>>)
        ELSE CASE h.statusCode = 200 ->
                    LET u == jsonUnmarshal(h.reply, respTransfers, "[]SynchronousTransfer") IN
                    Out(u.item, NoValue, u.err, h.sent, TRUE, 1, <<>>)
               [] h.statusCode = 429 ->
                    Out(respTransfers, NoValue, ErrRateLimit, h.sent, TRUE, 0, <<>>)
               [] OTHER ->
                    Out(respTransfers, NoValue, ErrDefault(h.statusCode), h.sent, TRUE, 0, <<>>)

(* values.Add("accountID", accountID) when accountID is not empty *)
AccountIDValues(accountID) ==
    IF accountID # <<>> THEN Add(<<>>, "accountID", accountID) ELSE <<>>

GetTransferNoErrCheck(transferID, accountID, reply) ==
    LET urlStr == Sprintf(<<"%s", "/", "%s", "/", "%s", "?", "%s">>, <<baseURL, pathTransfers, transferID, Encode(AccountIDValues(accountID))>>)
        h == GetHTTPResponse(MethodGet, urlStr, <<>>, EmptyMap, reply)
    IN  IF FALSE
        THEN Out(Zero("SynchronousTransfer"), NoValue, h.err, h.sent, FALSE, 0, <<>>)
        ELSE CASE h.statusCode = 200 ->
                    LET u == jsonUnmarshal(h.reply, Zero("SynchronousTransfer"), "SynchronousTransfer") IN
                    Out(u.item, NoValue, u.err, h.sent, TRUE, 1, <<>>)
               [] h.statusCode = 429 ->
                    Out(Zero("SynchronousTransfer"), NoValue, ErrRateLimit, h.sent, TRUE, 0, <<>>)
               [] OTHER ->
                    Out(Zero("SynchronousTransfer"), NoValue, ErrDefault(h.statusCode), h.sent, TRUE, 0, <<>>)

GetTransfer(transferID, accountID, reply) ==
    LET urlStr == Sprintf(<<"%s", "/", "%s", "/", "%s", "?", "%s">>, <<baseURL, pathTransfers, transferID, Encode(AccountIDValues(accountID))>>)
        h == GetHTTPResponse(MethodGet, urlStr, <<>>, EmptyMap, reply)
    IN  IF h.err # NilErr
        THEN Out(Zero("SynchronousTransfer"), NoValue, h.err, h.sent, FALSE, 0, <<>>)
        ELSE CASE h.statusCode = 200 ->
                    LET u == jsonUnmarshal(h.reply, Zero("SynchronousTransfer"), "SynchronousTransfer") IN
                    Out(u.item, NoValue, u.err, h.sent, TRUE, 1, <<>>)
               [] h.statusCode = 429 ->
                    Out(Zero("SynchronousTransfer"), NoValue, ErrRateLimit, h.sent, TRUE, 0, <<>>)
               [] OTHER ->
                    Out(Zero("SynchronousTransfer"), NoValue, ErrDefault(h.statusCode), h.sent, TRUE, 0, <<>>)

UpdateTransferMetaData(transferID, accountID, metadata, reply) ==
    LET urlStr == Sprintf(<<"%s", "/", "%s", "/", "%s", "?", "%s">>, <<baseURL, pathTransfers, transferID, Encode(AccountIDValues(accountID))>>)
        h == GetHTTPResponse(MethodPatch, urlStr, <<"MetaDataPayload", metadata>>, EmptyMap, reply)
    IN  IF h.err # NilErr
        THEN Out(Zero("SynchronousTransfer"), NoValue, h.err, h.sent, FALSE, 0, <<>>)
        ELSE CASE h.statusCode = 200 ->
                    LET u == jsonUnmarshal(h.reply, Zero("SynchronousTransfer"), "SynchronousTransfer") IN
                    Out(u.item, NoValue, u.err, h.sent, TRUE, 1, <<>>)
               [] h.statusCode = 429 ->
                    Out(Zero("SynchronousTransfer"), NoValue, ErrRateLimit, h.sent, TRUE, 0, <<>>)
               [] OTHER ->
                    Out(Zero("SynchronousTransfer"), NoValue, ErrDefault(h.statusCode), h.sent, TRUE, 0, <<>>)

TransferOptions(payload, reply) ==
    LET urlStr == Sprintf(<<"%s", "/", "%s">>, <<baseURL, pathTransferOptions>>)
        h == GetHTTPResponse(MethodPost, urlStr, <<"TransferOptionsPayload", payload>>, EmptyMap, reply)
    IN  IF h.err # NilErr
        THEN Out(Zero("CreatedTransferOptions"), NoValue, h.err, h.sent, FALSE, 0, <<>>)
        ELSE CASE h.statusCode = 200 ->
                    LET u == jsonUnmarshal(h.reply, Zero("CreatedTransferOptions"), "CreatedTransferOptions") IN
                    Out(u.item, NoValue, u.err, h.sent, TRUE, 1, <<>>)
               [] h.statusCode = 429 ->
                    Out(Zero("CreatedTransferOptions"), NoValue, ErrRateLimit, h.sent, TRUE, 0, <<>>)
               [] OTHER ->
                    Out(Zero("CreatedTransferOptions"), NoValue, ErrDefault(h.statusCode), h.sent, TRUE, 0, <<>>)

RefundTransfer(transferID, isSync, amount, uuidV4, reply) ==
    LET urlStr == Sprintf(<<"%s", "/", "%s", "/", "%s", "/refunds">>,
                          <<baseURL, pathTransfers, transferID>>)
        header == RefundHeader(isSync, uuidV4)
        refundPayload == <<"RefundPayload", ToString(amount)>>
        h == GetHTTPResponse(MethodPost, urlStr, refundPayload, header, reply)
        zero == Zero("Refund")
    IN  IF h.err # NilErr
        THEN Out(zero, NoValue, h.err, h.sent, FALSE, 0, <<>>)
        ELSE CASE h.statusCode \in {200, 202} ->
                    LET u == jsonUnmarshal(h.reply, zero, "Refund") IN
                    Out(u.item, NoValue, u.err, h.sent, TRUE, 1, <<>>)
               [] h.statusCode = 400 ->
                    Out(zero, NoValue, jsonUnmarshalError(h.reply), h.sent, TRUE, 1, <<>>)
               [] h.statusCode = 409 ->
                    Out(zero, NoValue, ErrXIdempotencyKey, h.sent, TRUE, 0, <<>>)
               [] h.statusCode = 422 ->
                    Out(zero, NoValue, ErrRequestBody, h.sent, TRUE, 0, <<>>)
               [] h.statusCode = 429 ->
                    Out(zero, NoValue, ErrRateLimit, h.sent, TRUE, 0, <<>>)
               [] OTHER ->
                    Out(zero, NoValue, ErrDefault(h.statusCode), h.sent, TRUE, 0, <<>>)

ListRefunds(transferID, reply) ==
    LET urlStr == Sprintf(<<"%s", "/", "%s", "/", "%s", "/refunds">>, <<baseURL, pathTransfers, transferID>>)
        h == GetHTTPResponse(MethodGet, urlStr, <<>>, EmptyMap, reply)
    IN  IF h.err # NilErr
        THEN Out(Nil("[]Refund"), NoValue, h.err, h.sent, FALSE, 0, <<>>)
        ELSE CASE h.statusCode = 200 ->
                    LET u == jsonUnmarshal(h.reply, Nil("[]Refund"), "[]Refund") IN
                    Out(u.item, NoValue, u.err, h.sent, TRUE, 1, <<>>)
               [] h.statusCode = 429 ->
                    Out(Nil("[]Refund"), NoValue, ErrRateLimit, h.sent, TRUE, 0, <<>>)
               [] OTHER ->
                    Out(Nil("[]Refund"), NoValue, ErrDefault(h.statusCode), h.sent, TRUE, 0, <<>>)

GetRefund(transferID, refundID, reply) ==
    LET urlStr == Sprintf(<<"%s", "/", "%s", "/", "%s", "/refunds/", "%s">>, <<baseURL, pathTransfers, transferID, refundID>>)
        h == GetHTTPResponse(MethodGet, urlStr, <<>>, EmptyMap, reply)
    IN  IF h.err # NilErr
        THEN Out(Zero("Refund"), NoValue, h.err, h.sent, FALSE, 0, <<>>)
        ELSE CASE h.statusCode = 200 ->
                    LET u == jsonUnmarshal(h.reply, Zero("Refund"), "Refund") IN
                    Out(u.item, NoValue, u.err, h.sent, TRUE, 1, <<>>)
               [] h.statusCode = 429 ->
                    Out(Zero("Refund"), NoValue, ErrRateLimit, h.sent, TRUE, 0, <<>>)
               [] OTHER ->
                    Out(Zero("Refund"), NoValue, ErrDefault(h.statusCode), h.sent, TRUE, 0, <<>>)

ReverseTransferNoConflictCase(transferID, amount, uuidV4, reply) ==
    LET urlStr == Sprintf(<<"%s", "/", "%s", "/", "%s", "/reversals">>,
                          <<baseURL, pathTransfers, transferID>>)
        header == ReverseHeader(uuidV4)
        refundPayload == <<"RefundPayload", ToString(amount)>>
        h == GetHTTPResponse(MethodPost, urlStr, refundPayload, header, reply)
        zero == Zero("CanceledTransfer")
    IN  IF h.err # NilErr
        THEN Out(zero, NoValue, h.err, h.sent, FALSE, 0, <<>>)
        ELSE CASE h.statusCode \in {200, 202} ->
                    LET u == jsonUnmarshal(h.reply, zero, "CanceledTransfer") IN
                    Out(u.item, NoValue, u.err, h.sent, TRUE, 1, <<>>)
               [] h.statusCode = 400 ->
                    Out(zero, NoValue, jsonUnmarshalError(h.reply), h.sent, TRUE, 1, <<>>)
               [] h.statusCode = 422 ->
                    Out(zero, NoValue, ErrRequestBody, h.sent, TRUE, 0, <<>>)
               [] h.statusCode = 429 ->
                    Out(zero, NoValue, ErrRateLimit, h.sent, TRUE, 0, <<>>)
               [] OTHER ->
                    Out(zero, NoValue, ErrDefault(h.statusCode), h.sent, TRUE, 0, <<>>)

ReverseTransfer(transferID, amount, uuidV4, reply) ==
    LET urlStr == Sprintf(<<"%s", "/", "%s", "/", "%s", "/reversals">>,
                          <<baseURL, pathTransfers, transferID>>)
        header == ReverseHeader(uuidV4)
        refundPayload == <<"RefundPayload", ToString(amount)>>
        h == GetHTTPResponse(MethodPost, urlStr, refundPayload, header, reply)
        zero == Zero("CanceledTransfer")
    IN  IF h.err # NilErr
        THEN Out(zero, NoValue, h.err, h.sent, FALSE, 0, <<>>)
        ELSE CASE h.statusCode \in {200, 202} ->
                    LET u == jsonUnmarshal(h.reply, zero, "CanceledTransfer") IN
                    Out(u.item, NoValue, u.err, h.sent, TRUE, 1, <<>>)
               [] h.statusCode = 400 ->
                    Out(zero, NoValue, jsonUnmarshalError(h.reply), h.sent, TRUE, 1, <<>>)
               [] h.statusCode = 409 ->
                    Out(zero, NoValue, ErrXIdempotencyKey, h.sent, TRUE, 0, <<>>)
               [] h.statusCode = 422 ->
                    Out(zero, NoValue, ErrRequestBody, h.sent, TRUE, 0, <<>>)
               [] h.statusCode = 429 ->
                    Out(zero, NoValue, ErrRateLimit, h.sent, TRUE, 0, <<>>)
               [] OTHER ->
                    Out(zero, NoValue, ErrDefault(h.statusCode), h.sent, TRUE, 0, <<>>)

CreateBankAccountNoConflictCase(accountID, bankAccount, reply) ==
    LET h == CallHttp(Endpoint(MethodPost, pathBankAccounts, <<accountID>>),
                      <<AcceptJson, JsonBody(bankAccount)>>, reply)
        nilAccount == Nil("BankAccount")
    IN  IF h.err # NilErr
        THEN Out(nilAccount, NoValue, h.err, h.sent, FALSE, 0, h.applied)
        ELSE CASE Status(h.resp) = StatusCompleted ->
                    LET u == CompletedObjectOrError(h.resp, "BankAccount") IN
                    Out(u.value, NoValue, u.err, h.sent, TRUE, u.unmarshals, h.applied)
               [] OTHER ->
                    Out(nilAccount, NoValue, Error(h.resp), h.sent, TRUE, 0, h.applied)

CreateBankAccount(accountID, bankAccount, reply) ==
    LET h == CallHttp(Endpoint(MethodPost, pathBankAccounts, <<accountID>>),
                      <<AcceptJson, JsonBody(bankAccount)>>, reply)
        nilAccount == Nil("BankAccount")
    IN  IF h.err # NilErr
        THEN Out(nilAccount, NoValue, h.err, h.sent, FALSE, 0, h.applied)
        ELSE CASE Status(h.resp) = StatusCompleted ->
                    LET u == CompletedObjectOrError(h.resp, "BankAccount") IN
                    Out(u.value, NoValue, u.err, h.sent, TRUE, u.unmarshals, h.applied)
               [] Status(h.resp) = StatusStateConflict ->
                    Out(nilAccount, NoValue, ErrDuplicateBankAccount, h.sent, TRUE, 0, h.applied)
               [] OTHER ->
                    Out(nilAccount, NoValue, Error(h.resp), h.sent, TRUE, 0, h.applied)

GetBankAccount(accountID, bankAccountID, reply) ==
    LET h == CallHttp(Endpoint(MethodGet, pathBankAccounts, <<accountID>>),
                      <<AcceptJson>>, reply)
    IN  IF h.err # NilErr
        THEN Out(Nil("BankAccount"), NoValue, h.err, h.sent, FALSE, 0, h.applied)
        ELSE LET u == CompletedObjectOrError(h.resp, "BankAccount") IN
             Out(u.value, NoValue, u.err, h.sent, TRUE, u.unmarshals, h.applied)

DeleteBankAccount(accountID, bankAccountID, reply) ==
    LET h == CallHttp(Endpoint(MethodDelete, pathBankAccounts, <<accountID>>), <<>>, reply)
    IN  IF h.err # NilErr
        THEN Out(NoValue, NoValue, h.err, h.sent, FALSE, 0, h.applied)
        ELSE LET u == CompletedNilOrError(h.resp) IN
             Out(u.value, NoValue, u.err, h.sent, TRUE, u.unmarshals, h.applied)

ListBankAccounts(accountID, reply) ==
    LET h == CallHttp(Endpoint(MethodGet, pathBankAccounts, <<accountID>>),
                      <<AcceptJson>>, reply)
    IN  IF h.err # NilErr
        THEN Out(Nil("[]BankAccount"), NoValue, h.err, h.sent, FALSE, 0, h.applied)
        ELSE LET u == CompletedListOrError(h.resp, "[]BankAccount") IN
             Out(u.value, NoValue, u.err, h.sent, TRUE, u.unmarshals, h.applied)

MicroDepositInitiate(accountID, bankAccountID, reply) ==
    LET h == CallHttp(Endpoint(MethodPost, pathMicroDeposits, <<accountID, bankAccountID>>),
                      <<>>, reply)
    IN  IF h.err # NilErr
        THEN Out(NoValue, NoValue, h.err, h.sent, FALSE, 0, h.applied)
        ELSE LET u == CompletedNilOrError(h.resp) IN
             Out(u.value, NoValue, u.err, h.sent, TRUE, u.unmarshals, h.applied)

MicroDepositConfirm(accountID, bankAccountID, amounts, reply) ==
    LET h == CallHttp(Endpoint(MethodPut, pathMicroDeposits, <<accountID, bankAccountID>>),
                      <<AcceptJson, JsonBody(amounts)>>, reply)
    IN  IF h.err # NilErr
        THEN Out(NoValue, NoValue, h.err, h.sent, FALSE, 0, h.applied)
        ELSE CASE Status(h.resp) = StatusCompleted ->
                    Out(NoValue, NoValue, NilErr, h.sent, TRUE, 0, h.applied)
               [] Status(h.resp) = StatusNotFound ->
                    Out(NoValue, NoValue, ErrNoMicroDeposit, h.sent, TRUE, 0, h.applied)
               [] Status(h.resp) = StatusStateConflict ->
                    Out(NoValue, NoValue, ErrAmountIncorrect, h.sent, TRUE, 0, h.applied)
               [] OTHER ->
                    Out(NoValue, NoValue, Error(h.resp), h.sent, TRUE, 0, h.applied)

----------------------------------------------------------------------------
(* Inputs *)

RECURSIVE SeqsUpTo(_, _)
SeqsUpTo(S, n) ==
    IF n = 0 THEN {<<>>}
    ELSE LET shorter == SeqsUpTo(S, n - 1) IN
         shorter \cup {Append(q, x) : q \in shorter, x \in S}

IDs == {<<"id1">>, <<"id2">>}
AccountIDs == {<<"acct1">>}
Bodies == {"b1"}
UUIDs == {"uuid1", "uuid2"}
WaitStates == {"rail-response", "payout"}
StatusCodes == {200, 202, 400, 404, 409, 422, 429, 500}

NoStatus == callStatus("", FALSE)

(* what the network can answer to a call made through CallHttp *)
CallReplies ==
    {[err |-> e, status |-> NoStatus, statusCode |-> 0, body |-> "", decodes |-> "fail"] :
        e \in TransportErrs}
    \cup
    {[err |-> NilErr, status |-> st, statusCode |-> 0, body |-> b, decodes |-> d] :
        st \in CallStatuses, b \in Bodies, d \in Decodings}

Responses == {r \in CallReplies : r.err = NilErr}

(* what the network can answer to a call made through GetHTTPResponse *)
HTTPReplies ==
    {[err |-> e, status |-> NoStatus, statusCode |-> 0, body |-> "", decodes |-> "fail"] :
        e \in TransportErrs}
    \cup
    {[err |-> NilErr, status |-> NoStatus, statusCode |-> c, body |-> b, decodes |-> d] :
        c \in {200, 202, 400}, b \in Bodies, d \in Decodings}
    \cup
    {[err |-> NilErr, status |-> NoStatus, statusCode |-> c, body |-> b, decodes |-> "fail"] :
        c \in StatusCodes \ {200, 202, 400}, b \in Bodies}

EndpointArgs ==
    { Endpoint(MethodPost, pathTransfers, <<>>),
      Endpoint(MethodGet, pathBankAccounts, <<<<"id1">>>>) }

CallArgs ==
    EndpointArgs \cup {AcceptJson}
    \cup {JsonBody(b) : b \in {"transfer"} \cup Unmarshalable}
    \cup {WaitFor(st) : st \in WaitStates}

SearchQueryPayloads ==
    [AccountIDs : SeqsUpTo(AccountIDs, MaxAccountIDs), Status : {<<>>, <<"pending">>},
     StartDateTime : Times, EndDateTime : Times, GroupID : {<<>>, <<"g1">>},
     Count : (-1)..MaxCount, Skip : (-1)..MaxCount,
     Refunded : BOOLEAN, Disputed : BOOLEAN]

NoPayload ==
    [AccountIDs |-> <<>>, Status |-> <<>>, StartDateTime |-> 0, EndDateTime |-> 0,
     GroupID |-> <<>>, Count |-> 0, Skip |-> 0, Refunded |-> FALSE, Disputed |-> FALSE]

NoReply == [err |-> NilErr, status |-> NoStatus, statusCode |-> 0, body |-> "", decodes |-> "fail"]

NoInput ==
    [endpoint |-> AcceptJson, args |-> <<>>, reply |-> NoReply, isSync |-> FALSE,
     payload |-> NoPayload, id |-> <<>>, id2 |-> <<>>, amount |-> 0, uuid |-> "",
     body |-> "", type |-> "", record |-> <<>>]

NoDecoded == [value |-> <<>>, err |-> NilErr]

(* records to encode and decode *)
Strings == {<<>>, <<"USD">>}
Ints == {0, 1204}
Maps == {NilMap, MapOf(EmptyMap), MapOf(MapSet(EmptyMap, "k", <<"v">>))}

Amounts == [Currency : Strings, Value : Ints]

TransferOptionsSourcePayloads == [PaymentMethodID : Strings, AccountID : Strings]

RecordTypeNames ==
    {"Amount", "AsynchronousTransfer", "BankAccount", "MetaDataPayload", "RefundStatus",
     "TransferOptionsPayload"}

RecordType(name) ==
    CASE name = "Amount" -> AmountType
      [] name = "AsynchronousTransfer" -> AsynchronousTransferType
      [] name = "BankAccount" -> BankAccountType
      [] name = "MetaDataPayload" -> MetaDataPayloadType
      [] name = "RefundStatus" -> RefundStatusType
      [] name = "TransferOptionsPayload" -> TransferOptionsPayloadType

Records(name) ==
    CASE name = "Amount" -> Amounts
      [] name = "AsynchronousTransfer" -> [TransferID : Strings, CreatedOn : Times]
      [] name = "BankAccount" -> [FieldNames(BankAccountType) -> Strings]
      [] name = "MetaDataPayload" -> [Metadata : Maps]
      [] name = "RefundStatus" -> [Status : Strings, CreatedOn : Times]
      [] name = "TransferOptionsPayload" ->
           [Source : TransferOptionsSourcePayloads,
            Destination : TransferOptionsSourcePayloads, Amount : Amounts]

(* dispute bodies: each key of the body of TestDisputesMarshal is absent,  *)
(* null, a value of the field's kind or, for two of them, of another kind; *)
(* a body may also have a key that Dispute has no field for.               *)
DisputeValue(key) ==
    CASE key = "amount" -> JObj([k \in {"currency", "value"} |->
                                    IF k = "currency" THEN JStr(<<"USD">>) ELSE JNum(1204)])
      [] key = "createdOn" -> JStr(FormatRFC3339(2023))
      [] key = "disputeID" -> JStr(<<"ec7e1848-dc80-4ab0-8827-dd7fc0737b43">>)
      [] key = "networkReasonCode" -> JStr(<<"4837">>)
      [] key = "networkReasonDescription" -> JStr(<<"no authorization">>)
      [] key = "respondBy" -> JStr(FormatRFC3339(2023))
      [] key = "status" -> JStr(<<"response-needed">>)
      [] key = "transfer" ->
           JObj([k \in {"transferID"} |-> JStr(<<"ec7e1848-dc80-4ab0-8827-dd7fc0737b43">>)])

DisputeChoices ==
    {c \in [FieldKeys(DisputeType) -> {"absent", "null", "value", "wrong"}] :
        \A k \in FieldKeys(DisputeType) : c[k] = "wrong" => k \in {"disputeID", "createdOn"}}

DisputeBody(choice, extra) ==
    JObj([k \in {key \in FieldKeys(DisputeType) : choice[key] # "absent"} \cup extra |->
            IF k \notin FieldKeys(DisputeType) THEN JStr(<<"x">>)
            ELSE IF choice[k] = "null" THEN JNull
            ELSE IF choice[k] = "wrong" THEN JNum(7)
            ELSE DisputeValue(k)])

----------------------------------------------------------------------------
(* State machine: the client is constructed, then called any number of     *)
(* times, one call at a time; op names the call whose results the state    *)
(* holds, "none" between calls.  No call leaves anything for the next.     *)

Init ==
    /\ op = "none"
    /\ input = NoInput
    /\ builder = NoCall
    /\ result = NoValue
    /\ result2 = NoValue
    /\ err = NilErr
    /\ sent = <<>>
    /\ inspected = FALSE
    /\ unmarshals = 0
    /\ applied = <<>>
    /\ encoded = JNull
    /\ decoded = NoDecoded

Returns(name, in, o) ==
    /\ op' = name
    /\ input' = in
    /\ builder' = NoCall
    /\ result' = o.result
    /\ result2' = o.result2
    /\ err' = o.err
    /\ sent' = o.sent
    /\ inspected' = o.inspected
    /\ unmarshals' = o.unmarshals
    /\ applied' = o.applied
    /\ encoded' = JNull
    /\ decoded' = NoDecoded

NewCall ==
    /\ op = "none"
    /\ \E endpoint \in EndpointArgs, args \in SeqsUpTo(CallArgs, MaxArgs) :
        LET c == newCall(endpoint, args) IN
        /\ op' = "newCall"
        /\ input' = [NoInput EXCEPT !.endpoint = endpoint, !.args = args]
        /\ builder' = c.call
        /\ result' = NoValue
        /\ result2' = NoValue
        /\ err' = c.err
        /\ sent' = <<>>
        /\ inspected' = FALSE
        /\ unmarshals' = 0
        /\ applied' = c.applied
        /\ encoded' = JNull
        /\ decoded' = NoDecoded

CallCallHttp ==
    /\ op = "none"
    /\ \E endpoint \in EndpointArgs, args \in SeqsUpTo(CallArgs, MaxArgs),
          reply \in CallReplies :
        LET h == CallHttp(endpoint, args, reply) IN
        Returns("CallHttp",
                [NoInput EXCEPT !.endpoint = endpoint, !.args = args, !.reply = reply],
                Out(NoValue, NoValue, h.err, h.sent, FALSE, 0, h.applied))

CallCompletedNilOrError ==
    /\ op = "none"
    /\ \E resp \in Responses :
        LET u == CompletedNilOrError(resp) IN
        Returns("CompletedNilOrError", [NoInput EXCEPT !.reply = resp],
                Out(u.value, NoValue, u.err, <<>>, TRUE, u.unmarshals, <<>>))

CallCompletedObjectOrError ==
    /\ op = "none"
    /\ \E resp \in Responses :
        LET u == CompletedObjectOrError(resp, "BankAccount") IN
        Returns("CompletedObjectOrError", [NoInput EXCEPT !.reply = resp],
                Out(u.value, NoValue, u.err, <<>>, TRUE, u.unmarshals, <<>>))

CallCompletedListOrError ==
    /\ op = "none"
    /\ \E resp \in Responses :
        LET u == CompletedListOrError(resp, "[]BankAccount") IN
        Returns("CompletedListOrError", [NoInput EXCEPT !.reply = resp],
                Out(u.value, NoValue, u.err, <<>>, TRUE, u.unmarshals, <<>>))

CallCreateTransfer ==
    /\ op = "none"
    /\ \E isSync \in BOOLEAN, reply \in CallReplies :
        Returns("CreateTransfer",
                [NoInput EXCEPT !.isSync = isSync, !.reply = reply, !.body = "transfer"],
                CreateTransfer("transfer", isSync, reply))

CallListTransfers ==
    /\ op = "none"
    /\ \E payload \in SearchQueryPayloads, reply \in HTTPReplies :
        Returns("ListTransfers", [NoInput EXCEPT !.payload = payload, !.reply = reply],
                ListTransfers(payload, reply))

CallGetTransfer ==
    /\ op = "none"
    /\ \E transferID \in IDs, accountID \in IDs \cup {<<>>}, reply \in HTTPReplies :
        Returns("GetTransfer",
                [NoInput EXCEPT !.id = transferID, !.id2 = accountID, !.reply = reply],
                GetTransfer(transferID, accountID, reply))

CallUpdateTransferMetaData ==
    /\ op = "none"
    /\ \E transferID \in IDs, accountID \in IDs \cup {<<>>}, reply \in HTTPReplies :
        Returns("UpdateTransferMetaData",
                [NoInput EXCEPT !.id = transferID, !.id2 = accountID, !.reply = reply,
                                !.body = "metadata"],
                UpdateTransferMetaData(transferID, accountID, "metadata", reply))

CallTransferOptions ==
    /\ op = "none"
    /\ \E reply \in HTTPReplies :
        Returns("TransferOptions", [NoInput EXCEPT !.reply = reply, !.body = "options"],
                TransferOptions("options", reply))

CallRefundTransfer ==
    /\ op = "none"
    /\ \E transferID \in IDs, isSync \in BOOLEAN, amount \in 0..1, uuidV4 \in UUIDs,
       reply \in HTTPReplies :
        Returns("RefundTransfer",
                [NoInput EXCEPT !.id = transferID, !.isSync = isSync, !.amount = amount,
                                !.uuid = uuidV4, !.reply = reply],
                RefundTransfer(transferID, isSync, amount, uuidV4, reply))

CallListRefunds ==
    /\ op = "none"
    /\ \E transferID \in IDs, reply \in HTTPReplies :
        Returns("ListRefunds", [NoInput EXCEPT !.id = transferID, !.reply = reply],
                ListRefunds(transferID, reply))

CallGetRefund ==
    /\ op = "none"
    /\ \E transferID \in IDs, refundID \in IDs, reply \in HTTPReplies :
        Returns("GetRefund",
                [NoInput EXCEPT !.id = transferID, !.id2 = refundID, !.reply = reply],
                GetRefund(transferID, refundID, reply))

CallReverseTransfer ==
    /\ op = "none"
    /\ \E transferID \in IDs, amount \in 0..1, uuidV4 \in UUIDs, reply \in HTTPReplies :
        Returns("ReverseTransfer",
                [NoInput EXCEPT !.id = transferID, !.amount = amount, !.uuid = uuidV4,
                                !.reply = reply],
                ReverseTransfer(transferID, amount, uuidV4, reply))

CallCreateBankAccount ==
    /\ op = "none"
    /\ \E accountID \in IDs, reply \in CallReplies :
        Returns("CreateBankAccount",
                [NoInput EXCEPT !.id = accountID, !.reply = reply, !.body = "bankAccount"],
                CreateBankAccount(accountID, "bankAccount", reply))

CallGetBankAccount ==
    /\ op = "none"
    /\ \E accountID \in IDs, bankAccountID \in IDs, reply \in CallReplies :
        Returns("GetBankAccount",
                [NoInput EXCEPT !.id = accountID, !.id2 = bankAccountID, !.reply = reply],
                GetBankAccount(accountID, bankAccountID, reply))

CallDeleteBankAccount ==
    /\ op = "none"
    /\ \E accountID \in IDs, bankAccountID \in IDs, reply \in CallReplies :
        Returns("DeleteBankAccount",
                [NoInput EXCEPT !.id = accountID, !.id2 = bankAccountID, !.reply = reply],
                DeleteBankAccount(accountID, bankAccountID, reply))

CallListBankAccounts ==
    /\ op = "none"
    /\ \E accountID \in IDs, reply \in CallReplies :
        Returns("ListBankAccounts", [NoInput EXCEPT !.id = accountID, !.reply = reply],
                ListBankAccounts(accountID, reply))

CallMicroDepositInitiate ==
    /\ op = "none"
    /\ \E accountID \in IDs, bankAccountID \in IDs, reply \in CallReplies :
        Returns("MicroDepositInitiate",
                [NoInput EXCEPT !.id = accountID, !.id2 = bankAccountID, !.reply = reply],
                MicroDepositInitiate(accountID, bankAccountID, reply))

CallMicroDepositConfirm ==
    /\ op = "none"
    /\ \E accountID \in IDs, bankAccountID \in IDs, reply \in CallReplies :
        Returns("MicroDepositConfirm",
                [NoInput EXCEPT !.id = accountID, !.id2 = bankAccountID, !.reply = reply,
                                !.body = "amounts"],
                MicroDepositConfirm(accountID, bankAccountID, "amounts", reply))

JSONStep(name, in, doc, dec) ==
    /\ op' = name
    /\ input' = in
    /\ builder' = NoCall
    /\ result' = NoValue
    /\ result2' = NoValue
    /\ err' = dec.err
    /\ sent' = <<>>
    /\ inspected' = FALSE
    /\ unmarshals' = 1
    /\ applied' = <<>>
    /\ encoded' = doc
    /\ decoded' = dec

(* a record is encoded with json.Marshal and decoded into a new record *)
MarshalUnmarshal ==
    /\ op = "none"
    /\ \E name \in RecordTypeNames :
        \E record \in Records(name) :
            LET doc == marshal(RecordType(name), record) IN
            JSONStep("MarshalUnmarshal", [NoInput EXCEPT !.type = name, !.record = record],
                     doc, unmarshal(RecordType(name), doc, ZeroOf(RecordType(name)), FALSE))

(* TestDisputesMarshal: a body is decoded into new(Dispute) by a decoder   *)
(* with DisallowUnknownFields                                              *)
DecodeDispute ==
    /\ op = "none"
    /\ \E choice \in DisputeChoices, extra \in {{}, {"unknownField"}} :
        LET doc == DisputeBody(choice, extra) IN
        JSONStep("DecodeDispute",
                 [NoInput EXCEPT !.type = "Dispute", !.record = choice],
                 doc, unmarshal(DisputeType, doc, ZeroOf(DisputeType), TRUE))

(* the caller takes what the call returned; nothing of it stays behind *)
Return ==
    /\ op # "none"
    /\ op' = "none"
    /\ input' = NoInput
    /\ builder' = NoCall
    /\ result' = NoValue
    /\ result2' = NoValue
    /\ err' = NilErr
    /\ sent' = <<>>
    /\ inspected' = FALSE
    /\ unmarshals' = 0
    /\ applied' = <<>>
    /\ encoded' = JNull
    /\ decoded' = NoDecoded

Next ==
    \/ NewCall
    \/ CallCallHttp
    \/ CallCompletedNilOrError
    \/ CallCompletedObjectOrError
    \/ CallCompletedListOrError
    \/ CallCreateTransfer
    \/ CallListTransfers
    \/ CallGetTransfer
    \/ CallUpdateTransferMetaData
    \/ CallTransferOptions
    \/ CallRefundTransfer
    \/ CallListRefunds
    \/ CallGetRefund
    \/ CallReverseTransfer
    \/ CallCreateBankAccount
    \/ CallGetBankAccount
    \/ CallDeleteBankAccount
    \/ CallListBankAccounts
    \/ CallMicroDepositInitiate
    \/ CallMicroDepositConfirm
    \/ MarshalUnmarshal
    \/ DecodeDispute
    \/ Return

Spec == Init /\ [][Next]_vars

----------------------------------------------------------------------------
(* Properties *)

Combinators == {"CompletedNilOrError", "CompletedObjectOrError", "CompletedListOrError"}

RetryableNames == {"started", "rate_limited", "server_error"}

NotRetryableNames ==
    {"completed", "bad_request", "state_conflict", "failed_validation", "not_found",
     "unauthenticated", "unauthorized"}

(* the options newCall was given, the endpoint first *)
Given == <<input.endpoint>> \o input.args

(* the options of kind k among the given ones, by position *)
Positions(k) == {i \in 1..Len(Given) : Given[i].opt = k}

Last(S) == CHOOSE i \in S : \A j \in S : j <= i

Fails(arg) == arg.opt = "JsonBody" /\ arg.value \in Unmarshalable

FailingPositions == {i \in 1..Len(Given) : Fails(Given[i])}

First(S) == CHOOSE i \in S : \A j \in S : i <= j

(* C1: on every status other than completed, the three combinators return  *)
(* a non-nil error, the object and list combinators return a nil value,    *)
(* and none of them calls Unmarshal.                                       *)
C1_NotCompletedIsError ==
    (op \in Combinators /\ Status(input.reply) # StatusCompleted) =>
        /\ err # NilErr
        /\ unmarshals = 0
        /\ op # "CompletedNilOrError" => result.state = "nil"

C1_Witness ==
    /\ op = "CompletedObjectOrError"
    /\ Status(input.reply) = StatusStarted
    /\ input.reply.decodes = "ok"
    /\ err # NilErr
    /\ result.state = "nil"

(* C2: newCall runs the endpoint option first and then each given option   *)
(* once, in the order given, on one builder: a field or header written by  *)
(* several options holds what the last of them wrote.                      *)
C2_AppliedInOrder ==
    (op = "newCall" /\ err = NilErr) =>
        /\ builder.built
        /\ applied = Given
        /\ builder.method = Given[Last(Positions("Endpoint"))].method
        /\ builder.path = LET e == Given[Last(Positions("Endpoint"))]
                          IN  Sprintf(e.pathFmt, e.args)
        /\ Positions("WaitFor") # {} =>
             /\ "X-Wait-For" \in DOMAIN builder.headers
             /\ builder.headers["X-Wait-For"] = Given[Last(Positions("WaitFor"))].value
        /\ Positions("WaitFor") = {} => "X-Wait-For" \notin DOMAIN builder.headers

C2_Witness ==
    /\ op = "newCall"
    /\ err = NilErr
    /\ input.args = <<WaitFor("rail-response"), WaitFor("payout")>>
    /\ builder.headers["X-Wait-For"] = "payout"

C2_WitnessEndpoint ==
    /\ op = "newCall"
    /\ err = NilErr
    /\ input.endpoint = Endpoint(MethodPost, pathTransfers, <<>>)
    /\ input.args = <<AcceptJson, Endpoint(MethodGet, pathBankAccounts, <<<<"id1">>>>)>>
    /\ builder.method = MethodGet

(* C3: when an option fails, newCall returns that option's error and no    *)
(* builder, runs no option after it, and nothing is sent; a builder is     *)
(* returned only when every option succeeded.                              *)
C3_FailFast ==
    (op \in {"newCall", "CallHttp"}) =>
        /\ FailingPositions # {} =>
             /\ err = ErrMarshal
             /\ ~builder.built
             /\ applied = SubSeq(Given, 1, First(FailingPositions))
             /\ sent = <<>>
        /\ builder.built => FailingPositions = {}
        /\ (op = "CallHttp" /\ sent # <<>>) => FailingPositions = {}

C3_Witness ==
    /\ op = "newCall"
    /\ input.args = <<JsonBody("chan"), WaitFor("payout")>>
    /\ err = ErrMarshal
    /\ ~builder.built
    /\ Len(applied) = 2

C3_WitnessNotSent ==
    /\ op = "CallHttp"
    /\ input.reply.err = NilErr
    /\ FailingPositions # {}
    /\ sent = <<>>
    /\ err = ErrMarshal

(* C4: of the ten statuses, exactly started, rate_limited and server_error *)
(* are retryable.                                                          *)
C4_Retryable ==
    /\ Cardinality(CallStatuses) = 10
    /\ {st.Name : st \in CallStatuses} = RetryableNames \cup NotRetryableNames
    /\ \A st \in CallStatuses : st.Retryable <=> st.Name \in RetryableNames
    /\ (op # "none" /\ input.reply.status # NoStatus) =>
         /\ input.reply.status \in CallStatuses
         /\ input.reply.status.Retryable <=> input.reply.status.Name \in RetryableNames

C4_Witness ==
    /\ op = "CreateTransfer"
    /\ input.reply.err = NilErr
    /\ Status(input.reply).Name = "rate_limited"
    /\ Status(input.reply).Retryable

(* C5: CreateTransfer with isSync: a completed response that decodes gives *)
(* a synchronous transfer and no asynchronous one, a started response that *)
(* decodes gives the reverse; never both, and neither with an error.       *)
C5_CreateTransferResults ==
    (op = "CreateTransfer" /\ input.isSync) =>
        /\ (input.reply.err = NilErr /\ input.reply.decodes = "ok"
              /\ Status(input.reply) = StatusCompleted) =>
             (result.state = "decoded" /\ result2.state = "nil" /\ err = NilErr)
        /\ (input.reply.err = NilErr /\ input.reply.decodes = "ok"
              /\ Status(input.reply) = StatusStarted) =>
             (result.state = "nil" /\ result2.state = "decoded" /\ err = NilErr)
        /\ ~(result.state # "nil" /\ result2.state # "nil")
        /\ err # NilErr => (result.state = "nil" /\ result2.state = "nil")

C5_Witness ==
    /\ op = "CreateTransfer"
    /\ input.isSync
    /\ Status(input.reply) = StatusStarted
    /\ result.state = "nil"
    /\ result2 = Decoded("AsynchronousTransfer", "b1")

C5_WitnessDecodeFails ==
    /\ op = "CreateTransfer"
    /\ input.isSync
    /\ Status(input.reply) = StatusCompleted
    /\ input.reply.decodes = "partial"
    /\ err = ErrUnmarshal
    /\ result.state = "nil"

(* C6: an idempotency conflict (state_conflict on CreateTransfer, HTTP 409 *)
(* on RefundTransfer and ReverseTransfer) returns ErrXIdempotencyKey, not  *)
(* the generic error, with a nil or zero result.                           *)
C6_IdempotencyConflict ==
    /\ (op = "CreateTransfer" /\ input.reply.err = NilErr
          /\ Status(input.reply) = StatusStateConflict) =>
         /\ err = ErrXIdempotencyKey
         /\ err # Error(input.reply)
         /\ result.state = "nil" /\ result2.state = "nil"
    /\ (op \in {"RefundTransfer", "ReverseTransfer"} /\ input.reply.err = NilErr
          /\ input.reply.statusCode = 409) =>
         /\ err = ErrXIdempotencyKey
         /\ err # ErrDefault(409)
         /\ result.state = "zero"

C6_Witness ==
    /\ op = "ReverseTransfer"
    /\ input.reply.err = NilErr
    /\ input.reply.statusCode = 409
    /\ err = ErrXIdempotencyKey

C6_WitnessCreate ==
    /\ op = "CreateTransfer"
    /\ input.reply.err = NilErr
    /\ Status(input.reply) = StatusStateConflict
    /\ err = ErrXIdempotencyKey

(* Reading the query string of the request ListTransfers sent *)

RECURSIVE AfterToken(_, _)
AfterToken(str, tok) ==
    IF str = <<>> THEN <<>>
    ELSE IF Head(str) = tok THEN Tail(str)
    ELSE AfterToken(Tail(str), tok)

RECURSIVE SplitOn(_, _, _)
SplitOn(str, sep, cur) ==
    IF str = <<>> THEN <<cur>>
    ELSE IF Head(str) = sep THEN <<cur>> \o SplitOn(Tail(str), sep, <<>>)
    ELSE SplitOn(Tail(str), sep, Append(cur, Head(str)))

UnescapeToken(t) ==
    CASE t = "%2C" -> ","
      [] t = "%3A" -> ":"
      [] t = "%2F" -> "/"
      [] t = "%26" -> "&"
      [] t = "%3D" -> "="
      [] t = "%3F" -> "?"
      [] t = "%2B" -> "+"
      [] t = "+" -> " "
      [] OTHER -> t

QueryUnescape(str) == [i \in 1..Len(str) |-> UnescapeToken(str[i])]

(* the <<key, raw value>> pairs of the query string of a URL *)
QueryParams(url) ==
    LET parts == SplitOn(AfterToken(url, "?"), "&", <<>>)
    IN  {<<parts[i][1], SubSeq(parts[i], 3, Len(parts[i]))>> :
            i \in {j \in 1..Len(parts) : Len(parts[j]) >= 2 /\ parts[j][2] = "="}}

RawValues(query, key) == {kv[2] : kv \in {x \in query : x[1] = key}}

(* the parameter is in the query exactly when present, and then once, with *)
(* a value that reads back as value                                        *)
Carries(query, key, present, value) ==
    LET raw == RawValues(query, key) IN
    /\ (raw # {}) <=> present
    /\ present => {QueryUnescape(v) : v \in raw} = {value}

(* the same, and the raw text of the value is the percent-encoded value *)
CarriesEscaped(query, key, present, value) ==
    LET raw == RawValues(query, key) IN
    /\ (raw # {}) <=> present
    /\ present => {QueryUnescape(v) : v \in raw} = {value}
    /\ present => raw = {QueryEscape(value)}

(* C7 as stated: each filter parameter is in the query string if and only  *)
(* if its field is not the zero value of its type, with the field's value. *)
C7_ZeroValueOmitted ==
    (op = "ListTransfers") =>
        LET url == QueryParams(sent[1].url)
            p == input.payload
        IN  /\ Carries(url, "accountIDs", p.AccountIDs # <<>>, Join(p.AccountIDs, <<",">>))
            /\ Carries(url, "status", p.Status # <<>>, p.Status)
            /\ Carries(url, "startDateTime", p.StartDateTime # 0, FormatRFC3339(p.StartDateTime))
            /\ Carries(url, "endDateTime", p.EndDateTime # 0, FormatRFC3339(p.EndDateTime))
            /\ Carries(url, "groupID", p.GroupID # <<>>, p.GroupID)
            /\ Carries(url, "count", p.Count # 0, Sprint(p.Count))
            /\ Carries(url, "skip", p.Skip # 0, Sprint(p.Skip))

(* C7 amended: count and skip are in the query string if and only if the   *)
(* field is greater than zero; the other filters as stated.  The values    *)
(* are written percent-encoded.                                            *)
C7_PositiveCountOnly ==
    (op = "ListTransfers") =>
        LET url == QueryParams(sent[1].url)
            p == input.payload
        IN  /\ Len(sent) = 1
            /\ CarriesEscaped(url, "accountIDs", p.AccountIDs # <<>>, Join(p.AccountIDs, <<",">>))
            /\ CarriesEscaped(url, "status", p.Status # <<>>, p.Status)
            /\ CarriesEscaped(url, "startDateTime", p.StartDateTime # 0,
                              FormatRFC3339(p.StartDateTime))
            /\ CarriesEscaped(url, "endDateTime", p.EndDateTime # 0,
                              FormatRFC3339(p.EndDateTime))
            /\ CarriesEscaped(url, "groupID", p.GroupID # <<>>, p.GroupID)
            /\ CarriesEscaped(url, "count", p.Count > 0, Sprint(p.Count))
            /\ CarriesEscaped(url, "skip", p.Skip > 0, Sprint(p.Skip))

C7_Witness ==
    /\ op = "ListTransfers"
    /\ input.payload.Count = -1
    /\ input.payload.Skip = 1
    /\ input.payload.AccountIDs = <<<<"acct1">>, <<"acct1">>>>
    /\ input.payload.StartDateTime = 2023
    /\ RawValues(QueryParams(sent[1].url), "count") = {}
    /\ RawValues(QueryParams(sent[1].url), "skip") = {<<"1">>}
    /\ RawValues(QueryParams(sent[1].url), "accountIDs") = {<<"acct1", "%2C", "acct1">>}

C7_WitnessZero ==
    /\ op = "ListTransfers"
    /\ input.payload = NoPayload
    /\ sent[1].url = <<"https://api.moov.io", "/", "transfers", "?">>

(* C8: each request of RefundTransfer and ReverseTransfer has the key      *)
(* generated for the invocation in X-Idempotency-Key; X-Wait-For:          *)
(* rail-response is on the requests of RefundTransfer and CreateTransfer   *)
(* exactly when isSync, and never on those of ReverseTransfer.             *)
C8_Headers ==
    \A i \in 1..Len(sent) :
        LET h == sent[i].headers IN
        /\ op \in {"RefundTransfer", "ReverseTransfer"} =>
             /\ "X-Idempotency-Key" \in DOMAIN h
             /\ h["X-Idempotency-Key"] = input.uuid
        /\ op \in {"RefundTransfer", "CreateTransfer"} =>
             /\ ("X-Wait-For" \in DOMAIN h) <=> input.isSync
             /\ input.isSync => h["X-Wait-For"] = "rail-response"
        /\ op = "ReverseTransfer" => "X-Wait-For" \notin DOMAIN h

C8_Witness ==
    /\ op = "RefundTransfer"
    /\ ~input.isSync
    /\ input.uuid = "uuid2"
    /\ Len(sent) = 1
    /\ DOMAIN sent[1].headers = {"X-Idempotency-Key"}

C8_WitnessCreate ==
    /\ op = "CreateTransfer"
    /\ input.isSync
    /\ Len(sent) = 1
    /\ sent[1].headers["X-Wait-For"] = "rail-response"

Endpoints ==
    {"CreateTransfer", "ListTransfers", "GetTransfer", "UpdateTransferMetaData",
     "TransferOptions", "RefundTransfer", "ListRefunds", "GetRefund", "ReverseTransfer",
     "CreateBankAccount", "GetBankAccount", "DeleteBankAccount", "ListBankAccounts",
     "MicroDepositInitiate", "MicroDepositConfirm"}

(* C9: when the transport returns an error, the endpoint returns that very *)
(* error with a nil or zero result and reads no status.                    *)
C9_TransportErrorVerbatim ==
    (op \in Endpoints /\ input.reply.err # NilErr) =>
        /\ err = input.reply.err
        /\ result.state \in {"nil", "zero", "none"}
        /\ result2.state \in {"nil", "none"}
        /\ ~inspected
        /\ unmarshals = 0

C9_Witness ==
    /\ op = "GetTransfer"
    /\ input.reply.err \in TransportErrs
    /\ err = input.reply.err
    /\ result = Zero("SynchronousTransfer")

(* C10: an endpoint sends at most one request per invocation, also after a *)
(* retryable status, HTTP 429 or a transport error: then exactly one.      *)
C10_NoRetry ==
    (op \in Endpoints) =>
        /\ Len(sent) <= 1
        /\ (\/ input.reply.err # NilErr
            \/ input.reply.status.Retryable
            \/ input.reply.statusCode = 429) => Len(sent) = 1

C10_Witness ==
    /\ op = "CreateTransfer"
    /\ input.reply.err = NilErr
    /\ Status(input.reply) = StatusServerError
    /\ Len(sent) = 1
    /\ err = Error(input.reply)

C10_WitnessRateLimit ==
    /\ op = "RefundTransfer"
    /\ input.reply.statusCode = 429
    /\ err = ErrRateLimit
    /\ Len(sent) = 1

(* C11: CreateBankAccount returns ErrDuplicateBankAccount and no account   *)
(* exactly on state_conflict; MicroDepositConfirm returns nil on           *)
(* completed, ErrNoMicroDeposit on not_found, ErrAmountIncorrect on        *)
(* state_conflict; on every other status that did not complete both return *)
(* resp.Error().                                                           *)
C11_BankAccountOverrides ==
    /\ (op = "CreateBankAccount" /\ input.reply.err = NilErr) =>
         /\ (err = ErrDuplicateBankAccount) <=> (Status(input.reply) = StatusStateConflict)
         /\ Status(input.reply) = StatusStateConflict => result.state = "nil"
         /\ Status(input.reply) \notin {StatusCompleted, StatusStateConflict} =>
              (err = Error(input.reply) /\ result.state = "nil")
    /\ (op = "MicroDepositConfirm" /\ input.reply.err = NilErr) =>
         /\ Status(input.reply) = StatusCompleted => err = NilErr
         /\ Status(input.reply) = StatusNotFound => err = ErrNoMicroDeposit
         /\ Status(input.reply) = StatusStateConflict => err = ErrAmountIncorrect
         /\ Status(input.reply) \notin {StatusCompleted, StatusNotFound, StatusStateConflict} =>
              err = Error(input.reply)

C11_Witness ==
    /\ op = "CreateBankAccount"
    /\ input.reply.err = NilErr
    /\ Status(input.reply) = StatusStateConflict
    /\ err = ErrDuplicateBankAccount
    /\ result = Nil("BankAccount")

C11_WitnessMicroDeposit ==
    /\ op = "MicroDepositConfirm"
    /\ input.reply.err = NilErr
    /\ Status(input.reply) = StatusNotFound
    /\ err = ErrNoMicroDeposit

C11_WitnessGeneric ==
    /\ op = "MicroDepositConfirm"
    /\ input.reply.err = NilErr
    /\ Status(input.reply) = StatusUnauthorized
    /\ err = [kind |-> "classified", code |-> 0, status |-> "unauthorized"]

(* C12: on a completed response CompletedNilOrError returns nil; the       *)
(* object and list combinators decode once and return the decoded value    *)
(* with a nil error, or nil with the decoding error, never a half-decoded  *)
(* value with an error.                                                    *)
C12_CompletedDecodes ==
    (op \in Combinators /\ Status(input.reply) = StatusCompleted) =>
        /\ op = "CompletedNilOrError" => (err = NilErr /\ unmarshals = 0)
        /\ op # "CompletedNilOrError" =>
             /\ unmarshals = 1
             /\ input.reply.decodes = "ok" =>
                  /\ err = NilErr
                  /\ result.state = "decoded"
                  /\ result.body = input.reply.body
             /\ input.reply.decodes # "ok" =>
                  /\ err = ErrUnmarshal
                  /\ result.state = "nil"
             /\ err # NilErr => result.state = "nil"

C12_Witness ==
    /\ op = "CompletedListOrError"
    /\ Status(input.reply) = StatusCompleted
    /\ input.reply.decodes = "partial"
    /\ err = ErrUnmarshal
    /\ result = Nil("[]BankAccount")

C12_WitnessDecoded ==
    /\ op = "CompletedObjectOrError"
    /\ Status(input.reply) = StatusCompleted
    /\ result = Decoded("BankAccount", "b1")
    /\ err = NilErr

(* C14: RefundTransfer and ReverseTransfer return an error for every HTTP  *)
(* status other than 200 and 202, and no error only on 200 or 202 with a  *)
(* body that decodes.                                                      *)
C14_ErrorUnlessAccepted ==
    (op \in {"RefundTransfer", "ReverseTransfer"} /\ input.reply.err = NilErr) =>
        /\ input.reply.statusCode \notin {200, 202} => err # NilErr
        /\ err = NilErr =>
             (input.reply.statusCode \in {200, 202} /\ input.reply.decodes = "ok")

(* C15: the request of GetBankAccount and of DeleteBankAccount names the   *)
(* bank account: another bankAccountID gives another path, and the path of *)
(* GetBankAccount is not the path of ListBankAccounts.                     *)
C15_PathNamesBankAccount ==
    /\ (op \in {"GetBankAccount", "DeleteBankAccount"} /\ Len(sent) = 1) =>
         \A other \in IDs \ {input.id2} :
            LET o == IF op = "GetBankAccount"
                     THEN GetBankAccount(input.id, other, input.reply)
                     ELSE DeleteBankAccount(input.id, other, input.reply)
            IN  o.sent[1].url # sent[1].url
    /\ (op = "GetBankAccount" /\ Len(sent) = 1) =>
         ListBankAccounts(input.id, input.reply).sent[1].url # sent[1].url

(* the same content: strings, numbers and instants equal, maps with the    *)
(* same entries, structs with the same content field by field              *)
RECURSIVE SameFields(_, _, _)
SameFields(type, a, b) ==
    CASE type.kind = "map" -> a.entries = b.entries
      [] type.kind = "struct" ->
           \A n \in FieldNames(type) : SameFields(FieldNamed(type, n).type, a[n], b[n])
      [] OTHER -> a = b

DisputeKeysAs(kind) == {k \in FieldKeys(DisputeType) : input.record[k] = kind}

C13_WitnessRoundTrip ==
    /\ op = "MarshalUnmarshal"
    /\ input.type = "AsynchronousTransfer"
    /\ input.record = [TransferID |-> <<"USD">>, CreatedOn |-> 2023]
    /\ DOMAIN encoded[2] = {"transferID", "createdOn"}
    /\ decoded.value = input.record

(* an empty map is left out by omitempty and comes back as a nil map *)
C13_WitnessEmptyMap ==
    /\ op = "MarshalUnmarshal"
    /\ input.type = "MetaDataPayload"
    /\ input.record.Metadata = MapOf(EmptyMap)
    /\ DOMAIN encoded[2] = {}
    /\ decoded.value.Metadata = NilMap

====
